---- MODULE Spec2Model ----
(***************************************************************************)
(* The download-cache-and-transcode pipeline of the WhatsApp bot           *)
(* (src/server.js): download_video and the !ytdl4 / !ytdl3 command         *)
(* handlers around it, over a model of the two cache directories.          *)
(*                                                                         *)
(* File names are sequences of one-character strings, so that the code's   *)
(* startsWith / includes / endsWith / path.extname tests are computed on   *)
(* the characters as the code computes them.  A directory is the sequence  *)
(* of its files in increasing mtime order.  The Acquirer                   *)
(* (ytdlp.downloadAsync) and the Transcoder (ffmpeg) are external tools:   *)
(* their outcomes are drawn from AcqOutcomes and ConvOutcomes.             *)
(***************************************************************************)
EXTENDS Integers, Sequences, FiniteSets, TLC

(* ------------------------------ bounds -------------------------------- *)
\* number of !ytdl4 / !ytdl3 requests in one behaviour
MaxCalls == 2

(* ------------------------------ strings ------------------------------- *)
\* String.prototype.startsWith
StartsWith(f, s) == Len(f) >= Len(s) /\ SubSeq(f, 1, Len(s)) = s

\* String.prototype.endsWith
EndsWith(f, s) == Len(f) >= Len(s) /\ SubSeq(f, Len(f) - Len(s) + 1, Len(f)) = s

\* String.prototype.includes
Includes(f, s) == \E i \in 1..(Len(f) - Len(s) + 1) : SubSeq(f, i, i + Len(s) - 1) = s

\* index of the last "." of f, 0 when there is none
LastDot(f) ==
  IF \E i \in 1..Len(f) : f[i] = "."
  THEN CHOOSE i \in 1..Len(f) : f[i] = "." /\ \A j \in (i + 1)..Len(f) : f[j] /= "."
  ELSE 0

\* path.extname: from the last "." to the end, "" when the name has no "."
\* or only a leading one
extname(f) == IF LastDot(f) <= 1 THEN <<>> ELSE SubSeq(f, LastDot(f), Len(f))

\* filename.replace(/\.[^.]+$/, ""): drop a final ".xyz"
StripExt(f) ==
  IF LastDot(f) >= 1 /\ LastDot(f) < Len(f) THEN SubSeq(f, 1, LastDot(f) - 1) ELSE f

DotMp4 == <<".", "m", "p", "4">>
DotMp3 == <<".", "m", "p", "3">>
DotWebm == <<".", "w", "e", "b", "m">>
DotPart == <<".", "p", "a", "r", "t">>
DotTemp == <<".", "t", "e", "m", "p">>
DotF == <<".", "f">>
\* a format fragment yt-dlp writes before merging, <title>.f<id>.<ext>
DotFrag == <<".", "f", "1", ".", "m", "p", "4">>

\* the fileType argument of download_video and the directory it selects
Kinds == {"mp4", "mp3"}

\* `.${fileType}`
DotType(k) == IF k = "mp3" THEN DotMp3 ELSE DotMp4

\* sanitized titles the handlers pass; the first is a prefix of the second
TitleA == <<"a">>
TitleAB == <<"a", "b">>
Titles == {TitleA, TitleAB}

\* File sizes: download_video only tests size > 0 and size === 0, so a size
\* is 0 (the empty file) or 1 (any non-empty file).
FileSizes == {0, 1}

NonEmpty == FileSizes \ {0}

\* extensions of the files the Acquirer can produce
AcqExts == {DotMp4, DotMp3, DotWebm}

NoName == <<>>

(* ---------------------------- directories ----------------------------- *)
Names(d) == {d[i].name : i \in DOMAIN d}

\* fs.existsSync
Exists(d, n) == n \in Names(d)

Entry(d, n) == d[CHOOSE i \in DOMAIN d : d[i].name = n]

\* fs.statSync(...).size
SizeOf(d, n) == Entry(d, n).size

IsNot(n, e) == e.name /= n

\* fs.unlinkSync
Unlink(d, n) == SelectSeq(d, LAMBDA e : IsNot(n, e))

RECURSIVE UnlinkAll(_, _)
UnlinkAll(d, S) ==
  IF S = {} THEN d
  ELSE LET n == CHOOSE x \in S : TRUE IN UnlinkAll(Unlink(d, n), S \ {n})

\* A tool writes file n: it becomes the newest file of the directory.
\* whole = the tool finished the file (a complete media file).
WriteFile(d, n, s, w) == Append(Unlink(d, n), [name |-> n, size |-> s, whole |-> w])

\* fs.renameSync: dst is replaced, the file keeps its mtime
Rename(d, src, dst) ==
  IF src = dst THEN d
  ELSE LET d1 == Unlink(d, dst)
       IN [i \in DOMAIN d1 |-> IF d1[i].name = src THEN [d1[i] EXCEPT !.name = dst] ELSE d1[i]]

\* sortedFiles[0] of the sort by descending mtimeMs
Newest(d, S) ==
  d[CHOOSE i \in DOMAIN d : d[i].name \in S /\ \A j \in DOMAIN d : d[j].name \in S => j <= i].name

(* ------------------------- the code's filters ------------------------- *)
\* the cache check without the size test
CacheHit_NoSizeCheck(d, P) == Exists(d, P)

\* the cache check with a wrong size threshold
CacheHit_WrongThreshold(d, P) == Exists(d, P) /\ SizeOf(d, P) > 1

\* download_video: the file at the expected final path is a usable cache entry
CacheHit(d, P) == Exists(d, P) /\ SizeOf(d, P) > 0

\* download_video: the cachedFiles filter (an original that can be converted)
IsOriginal(f, base) ==
  /\ StartsWith(f, base)
  /\ ~Includes(f, DotPart)
  /\ ~Includes(f, DotF)
  /\ ~EndsWith(f, DotMp4)
  /\ ~EndsWith(f, DotMp3)

\* download_video: the partialFiles filter
IsPartialFile(f, base) ==
  StartsWith(f, base) /\ (Includes(f, DotF) \/ Includes(f, DotPart))

\* download_video: the downloadedFiles filter
IsDownloaded(f, base) ==
  StartsWith(f, base) /\ ~Includes(f, DotPart) /\ ~Includes(f, DotF)

\* the handlers' finally block: the files it deletes
IsHandlerPartial(f) == Includes(f, DotPart) \/ Includes(f, DotTemp)

(* --------------------------- external tools --------------------------- *)
\* What one ytdlp.downloadAsync call did: ok = the promise resolved; made =
\* it wrote the file <output><ext> of the given size; left = what it left
\* behind besides ("part": <output>.part, "frag": <output>.f1.mp4).
AcqOutcomes ==
  [ok : {FALSE}, made : {FALSE}, ext : {NoName}, size : {0}, left : {"none", "part", "frag"}]
    \cup
  [ok : {TRUE}, made : {FALSE}, ext : {NoName}, size : {0}, left : {"none", "part", "frag"}]
    \cup
  [ok : {TRUE}, made : {TRUE}, ext : AcqExts, size : FileSizes, left : {"none", "part", "frag"}]

NoAcq == [ok |-> FALSE, made |-> FALSE, ext |-> NoName, size |-> 0, left |-> "none"]

\* the directory after the Acquirer ran with output template <dir>/<base>
AcqEffect(d, base, o) ==
  LET d1 == IF o.left = "part" THEN WriteFile(d, base \o DotPart, 1, FALSE)
            ELSE IF o.left = "frag" THEN WriteFile(d, base \o DotFrag, 1, FALSE)
            ELSE d
  IN IF o.made THEN WriteFile(d1, base \o o.ext, o.size, o.size > 0) ELSE d1

\* What one ffmpeg run did: ok = exit code 0 and the output written; junk =
\* a failure that left a truncated output behind; size = the output's size.
ConvOutcomes ==
  [ok : {TRUE}, junk : {FALSE}, size : NonEmpty]
    \cup
  [ok : {FALSE}, junk : {FALSE}, size : {0}]
    \cup
  [ok : {FALSE}, junk : {TRUE}, size : FileSizes]

\* ffmpeg refuses to run with its output equal to its input, and fails
\* without an input; neither touches the directory
ConvRuns(d, in, out) == in /= out /\ Exists(d, in)

ConvOk(d, in, out, o) == ConvRuns(d, in, out) /\ o.ok

\* the directory after convertToMp4 / convertToMp3 (ffmpeg -i in -y out)
ConvEffect(d, in, out, o) ==
  IF ~ConvRuns(d, in, out) THEN d
  ELSE IF o.ok \/ o.junk THEN WriteFile(d, out, o.size, o.ok)
  ELSE d

(* -------------------------------- state ------------------------------- *)
VARIABLES
  dir,              \* dir[k]: the files of TEMP_DIR_MP4 / TEMP_DIR_MP3, oldest first
  ffmpegAvailable,  \* the global flag ensureFFmpeg sets
  rq,               \* rq[p]: the message handler p and its download_video call
  prev,             \* the last finished request: its arguments and result
  ncalls,           \* requests started so far
  deliv,            \* the delivery of one file by a handler
  cachecmd,         \* the last !cache4 / !cache3 listings and the last !dl4 / !dl3
  ensure,           \* where the startup call of ensureFFmpeg is
  message,          \* a message and what the !ytdl4 / !ytdl3 handler did with it
  db                \* a call of fetchDBApi

\* the state of the cache pipeline
pipeVars == <<dir, ffmpegAvailable, rq, prev, ncalls>>

\* the state of the handlers' other steps
sideVars == <<deliv, cachecmd, ensure, message, db>>

vars == <<dir, ffmpegAvailable, rq, prev, ncalls, deliv, cachecmd, ensure, message, db>>

\* message handlers that can be in flight
Procs == {1, 2}

\* handlers that run in the sequential specification
SeqProcs == {1}

NoRes == [kind |-> "none", name |-> NoName, err |-> ""]

Idle ==
  [pc |-> "idle", title |-> NoName, kind |-> "mp4", dir0 |-> <<>>, rep |-> NoName,
   acq |-> 0, conv |-> 0, unlinked |-> {}, renamed |-> FALSE,
   originalPath |-> NoName, downloadedPath |-> NoName, downloadedSize |-> 0, acqRes |-> NoAcq, convRes |-> "none",
   hasFFmpeg |-> FALSE, format |-> "", ffAtConvert |-> "unread", writing |-> {},
   announce |-> "", res |-> NoRes]

\* no message received
NoMessage ==
  [pc |-> "none", body |-> <<>>, reply |-> "", lookups |-> 0, downloads |-> 0,
   title |-> <<>>, videoTitle |-> <<>>]

\* the Error fetchDBApi keeps in lastError
NoError == [message |-> "", status |-> 0]

\* no call of fetchDBApi
NoFetch == [pc |-> "none", attempt |-> 0, log |-> <<>>, lastError |-> NoError, thrown |-> NoError]

\* no delivery in progress
NoDelivery ==
  [pc |-> "none", cmd |-> "", size |-> 0, uploads |-> 0, links |-> 0,
   attempt |-> 0, docs |-> 0, reply |-> "", log |-> <<>>, ret |-> FALSE, thrown |-> <<>>]

\* no listing shown, no cached file sent
NoCacheCmd ==
  [listed : [Kinds -> {FALSE}], files : [Kinds -> {<<>>}],
   sent : {[reply |-> "none", kind |-> "mp4", n |-> 0, name |-> NoName, shown |-> NoName]}]

\* the pipeline after construction: the two directories are created empty
\* (fs.mkdirSync); every other content is what earlier requests and the
\* external tools left behind
InitPipe ==
  /\ dir = [k \in Kinds |-> <<>>]
  /\ rq = [p \in Procs |-> Idle]
  /\ prev = [title |-> NoName, kind |-> "mp4", res |-> NoRes]
  /\ ncalls = 0

Init ==
  /\ InitPipe
  /\ ffmpegAvailable \in BOOLEAN
  /\ deliv = NoDelivery
  /\ cachecmd \in NoCacheCmd
  /\ ensure = "done"
  /\ message = NoMessage
  /\ db = NoFetch

(* ---------------------------- return, throw --------------------------- *)
\* download_video returns the path <targetDir>/<n>
Return(r, n) == [r EXCEPT !.pc = "returned", !.res = [kind |-> "path", name |-> n, err |-> ""]]

\* download_video throws new Error(msg)
Throw(r, msg) == [r EXCEPT !.pc = "returned", !.res = [kind |-> "error", name |-> NoName, err |-> msg]]

\* baseFilename of the call r
baseFilename(r) == StripExt(r.title)

\* filePath of the call r, within targetDir
filePath(r) == baseFilename(r) \o DotType(r.kind)

(* ------------------------------- actions ------------------------------ *)
\* the handler's filter for its cache announcement
IsAnnounced(f, videoTitle, k) ==
  StartsWith(f, videoTitle) /\ EndsWith(f, DotType(k)) /\ ~Includes(f, DotPart)

\* the announcements the handler can send over directory d: isCached tests
\* the size of cachedFiles[0], the first match in the order of readdirSync
Announcements(d, videoTitle, k) ==
  LET cachedFiles == {f \in Names(d) : IsAnnounced(f, videoTitle, k)}
  IN IF cachedFiles = {} THEN {"Downloading"}
     ELSE {IF SizeOf(d, c) > 0 THEN "Found in cache" ELSE "Downloading" : c \in cachedFiles}

\* The !ytdl4 / !ytdl3 handler up to its call of download_video: the URL was
\* accepted, the metadata lookup gave the (sanitized) title t, and the
\* handler announces what it expects.
Request(p, t, k) ==
  /\ rq[p].pc \in {"idle", "done"}
  /\ ncalls < MaxCalls
  /\ ncalls' = ncalls + 1
  /\ \E a \in Announcements(dir[k], t, k) :
       rq' = [rq EXCEPT ![p] =
                [Idle EXCEPT !.pc = "entry", !.title = t, !.kind = k, !.dir0 = dir[k],
                             !.announce = a,
                             !.rep = IF prev.title = t /\ prev.kind = k /\ prev.res.kind = "path"
                                     THEN prev.res.name ELSE NoName]]
  /\ UNCHANGED <<dir, ffmpegAvailable, prev, sideVars>>

\* the format string for separate video and audio streams, which need
\* ffmpeg to be merged; the code assigns the same string for both kinds
format_option(k) ==
  IF k = "mp4" THEN "bv[height<=?720]+ba/b[height<=?720]"
  ELSE "bv[height<=?720]+ba/b[height<=?720]"

\* a format choice with the two profiles exchanged
Format_Swapped(has, k) == IF has THEN "b[height<=?720]" ELSE format_option(k)

\* the format option passed to ytdlp.downloadAsync
Format(has, k) == IF has THEN format_option(k) ELSE "b[height<=?720]"

\* a fetch that is refused while another call fetches the same title and kind
StartDownload_SingleFlight(p, r, d, gone) ==
  /\ dir' = [dir EXCEPT ![r.kind] = d]
  /\ IF \E q \in Procs \ {p} : /\ rq[q].pc = "acquiring"
                                /\ rq[q].title = r.title /\ rq[q].kind = r.kind
     THEN rq' = [rq EXCEPT ![p] = Throw(r, "Download in progress")]
     ELSE rq' = [rq EXCEPT ![p] = [r EXCEPT !.pc = "acquiring", !.acq = r.acq + 1,
                                           !.hasFFmpeg = ffmpegAvailable,
                                           !.format = Format(ffmpegAvailable, r.kind),
                                           !.unlinked = gone]]

\* download_video from the partial cleanup to the start of the fetch:
\* r is the call, d its directory, gone the files it has unlinked so far
StartDownload(p, r, d, gone) ==
  LET partialFiles == {f \in Names(d) : IsPartialFile(f, baseFilename(r))}
      hasFFmpeg == ffmpegAvailable
  IN /\ dir' = [dir EXCEPT ![r.kind] = UnlinkAll(d, partialFiles)]
     /\ rq' = [rq EXCEPT ![p] = [r EXCEPT !.pc = "acquiring", !.acq = r.acq + 1,
                                          !.hasFFmpeg = hasFFmpeg,
                                          !.format = Format(hasFFmpeg, r.kind),
                                          !.unlinked = gone \cup partialFiles]]

\* download_video on a cached original c of size > 0
UseOriginal(p, r, d, gone, c) ==
  /\ dir' = [dir EXCEPT ![r.kind] = d]
  /\ IF ffmpegAvailable
     THEN rq' = [rq EXCEPT ![p] = [r EXCEPT !.pc = "convCached", !.originalPath = c,
                                           !.conv = r.conv + 1, !.unlinked = gone]]
     ELSE rq' = [rq EXCEPT ![p] = Return([r EXCEPT !.originalPath = c, !.unlinked = gone], c)]

\* the cache check followed by a suspension before the cleanup and the fetch
download_video_Yield(p) ==
  /\ rq[p].pc = "entry"
  /\ rq' = [rq EXCEPT ![p] = IF CacheHit(dir[rq[p].kind], filePath(rq[p]))
                             THEN Return(rq[p], filePath(rq[p]))
                             ELSE [rq[p] EXCEPT !.pc = "cleanup"]]
  /\ UNCHANGED <<dir, ffmpegAvailable, prev, ncalls, sideVars>>

\* download_video from its first line to its first await (or return): the
\* cache check, the zero-byte deletion, the scan for a cached original and
\* the partial cleanup.  cachedFiles[0] is the first name readdirSync lists,
\* an order the file system chooses.
download_video(p) ==
  /\ rq[p].pc = "entry"
  /\ LET r == rq[p]
         P == filePath(r)
         d0 == dir[r.kind]
     IN IF CacheHit(d0, P)
        THEN /\ rq' = [rq EXCEPT ![p] = Return(r, P)]
             /\ UNCHANGED dir
        ELSE LET d1 == IF Exists(d0, P) THEN Unlink(d0, P) ELSE d0
                 g1 == IF Exists(d0, P) THEN {P} ELSE {}
                 cachedFiles == {f \in Names(d1) : IsOriginal(f, baseFilename(r))}
             IN IF cachedFiles = {}
                THEN StartDownload(p, r, d1, g1)
                ELSE \E c \in cachedFiles :
                       IF SizeOf(d1, c) > 0
                       THEN UseOriginal(p, r, d1, g1, c)
                       ELSE StartDownload(p, r, Unlink(d1, c), g1 \cup {c})
  /\ UNCHANGED <<ffmpegAvailable, prev, ncalls, sideVars>>

\* the catch block around the conversion of a cached original
AfterCachedConvertFail(r) == Return(r, r.originalPath)

\* convertToMp4 / convertToMp3 on the cached original settles
ConvertCachedDone(p, o) ==
  /\ rq[p].pc = "convCached"
  /\ LET d == dir[rq[p].kind]
         won == ConvOk(d, rq[p].originalPath, filePath(rq[p]), o)
         r == [rq[p] EXCEPT !.convRes = IF won THEN "ok" ELSE "fail", !.writing = {}]
     IN /\ dir' = [dir EXCEPT ![r.kind] = ConvEffect(d, r.originalPath, filePath(r), o)]
        /\ rq' = [rq EXCEPT ![p] = IF won THEN Return(r, filePath(r))
                                   ELSE AfterCachedConvertFail(r)]
  /\ UNCHANGED <<ffmpegAvailable, prev, ncalls, sideVars>>

\* a catch block that starts the fetch again
AfterAcquireFail_Retry(r) == [r EXCEPT !.pc = "acquiring", !.acq = r.acq + 1]

\* the catch block around ytdlp.downloadAsync
AfterAcquireFail(r) == Throw(r, "Download failed")

\* the renames of a download that is already .mp4 / .mp3
WantsRename(ext, n, P) == (ext = DotMp4 /\ n /= P) \/ (ext = DotMp3 /\ n /= P)

\* download_video after a successful fetch, up to the convert or the return
PostFetch(p, r, d) ==
  LET downloadedFiles == {f \in Names(d) : IsDownloaded(f, baseFilename(r))}
  IN IF downloadedFiles = {}
     THEN /\ rq' = [rq EXCEPT ![p] = Throw(r, "File not created")]
          /\ dir' = [dir EXCEPT ![r.kind] = d]
     ELSE LET n == Newest(d, downloadedFiles)
              ext == extname(n)
              r0 == [r EXCEPT !.downloadedPath = n, !.downloadedSize = SizeOf(d, n)]
              r1 == [r0 EXCEPT !.ffAtConvert = IF ffmpegAvailable THEN "yes" ELSE "no"]
          IN IF SizeOf(d, n) = 0
             THEN /\ rq' = [rq EXCEPT ![p] = Throw(r0, "Downloaded file is empty")]
                  /\ dir' = [dir EXCEPT ![r.kind] = d]
             ELSE IF ffmpegAvailable
             THEN /\ rq' = [rq EXCEPT ![p] = [r1 EXCEPT !.pc = "convDl", !.conv = r.conv + 1]]
                  /\ dir' = [dir EXCEPT ![r.kind] = d]
             ELSE IF WantsRename(ext, n, filePath(r))
             THEN /\ rq' = [rq EXCEPT ![p] = Return([r1 EXCEPT !.renamed = TRUE], filePath(r))]
                  /\ dir' = [dir EXCEPT ![r.kind] = Rename(d, n, filePath(r))]
             ELSE /\ rq' = [rq EXCEPT ![p] = Return(r1, n)]
                  /\ dir' = [dir EXCEPT ![r.kind] = d]

\* ytdlp.downloadAsync settles with outcome o, and download_video runs on
AcquireDone(p, o) ==
  /\ rq[p].pc = "acquiring"
  /\ LET r == [rq[p] EXCEPT !.acqRes = o, !.writing = {}]
         d == AcqEffect(UnlinkAll(dir[r.kind], rq[p].writing), baseFilename(r), o)
     IN IF ~o.ok
        THEN /\ rq' = [rq EXCEPT ![p] = AfterAcquireFail(r)]
             /\ dir' = [dir EXCEPT ![r.kind] = d]
        ELSE PostFetch(p, r, d)
  /\ UNCHANGED <<ffmpegAvailable, prev, ncalls, sideVars>>

\* a catch block that lets the conversion error escape
AfterConvertFail_Rethrow(r) == Throw(r, "FFmpeg exited")

\* the catch block around the conversion of the downloaded file
AfterConvertFail(r) == Return(r, r.downloadedPath)

\* convertToMp4 / convertToMp3 on the downloaded file settles
ConvertDownloadedDone(p, o) ==
  /\ rq[p].pc = "convDl"
  /\ LET d == dir[rq[p].kind]
         won == ConvOk(d, rq[p].downloadedPath, filePath(rq[p]), o)
         r == [rq[p] EXCEPT !.convRes = IF won THEN "ok" ELSE "fail", !.writing = {}]
     IN /\ dir' = [dir EXCEPT ![r.kind] = ConvEffect(d, r.downloadedPath, filePath(r), o)]
        /\ rq' = [rq EXCEPT ![p] = IF won THEN Return(r, filePath(r))
                                   ELSE AfterConvertFail(r)]
  /\ UNCHANGED <<ffmpegAvailable, prev, ncalls, sideVars>>

\* The rest of the handler: the delivery (or the error reply) and the
\* finally block, which deletes every .part / .temp file of the directory.
Finally(p) ==
  /\ rq[p].pc = "returned"
  /\ LET r == rq[p]
         d == dir[r.kind]
     IN /\ dir' = [dir EXCEPT ![r.kind] = UnlinkAll(d, {f \in Names(d) : IsHandlerPartial(f)})]
        /\ rq' = [rq EXCEPT ![p] = [r EXCEPT !.pc = "done"]]
        /\ prev' = [title |-> r.title, kind |-> r.kind, res |-> r.res]
  /\ UNCHANGED <<ffmpegAvailable, ncalls, sideVars>>

Step(p, T) ==
  \/ \E t \in T, k \in Kinds : Request(p, t, k)
  \/ download_video(p)
  \/ \E o \in ConvOutcomes : ConvertCachedDone(p, o)
  \/ \E o \in AcqOutcomes : AcquireDone(p, o)
  \/ \E o \in ConvOutcomes : ConvertDownloadedDone(p, o)
  \/ Finally(p)

\* one request at a time
Next == \E p \in SeqProcs : Step(p, Titles)

Spec == Init /\ [][Next]_vars

\* Overlapping requests: every message_create event starts its own run of
\* the async handler, and the runs interleave at their awaits.  Each handler
\* run serves one message.
NextConc == \E p \in Procs : rq[p].pc /= "done" /\ Step(p, Titles)

SpecConc == Init /\ [][NextConc]_vars

\* While download_video awaits ytdlp.downloadAsync, yt-dlp writes its
\* download to <output>.part; other handlers see the file.
AcquireProgress(p) ==
  /\ rq[p].pc = "acquiring"
  /\ rq[p].writing = {}
  /\ LET part == baseFilename(rq[p]) \o DotPart
     IN /\ dir' = [dir EXCEPT ![rq[p].kind] = WriteFile(dir[rq[p].kind], part, 1, FALSE)]
        /\ rq' = [rq EXCEPT ![p].writing = {part}]
  /\ UNCHANGED <<ffmpegAvailable, prev, ncalls, sideVars>>

\* While download_video awaits convertToMp4 / convertToMp3, ffmpeg writes its
\* output at outputPath, which is filePath; other handlers see the file.
ConvertProgress(p) ==
  /\ rq[p].pc \in {"convCached", "convDl"}
  /\ rq[p].writing = {}
  /\ LET inputPath == IF rq[p].pc = "convCached" THEN rq[p].originalPath
                      ELSE rq[p].downloadedPath
         outputPath == filePath(rq[p])
     IN /\ ConvRuns(dir[rq[p].kind], inputPath, outputPath)
        /\ \E s \in FileSizes :
             dir' = [dir EXCEPT ![rq[p].kind] = WriteFile(dir[rq[p].kind], outputPath, s, FALSE)]
        /\ rq' = [rq EXCEPT ![p].writing = {outputPath}]
  /\ UNCHANGED <<ffmpegAvailable, prev, ncalls, sideVars>>

\* the overlapping requests together with the files the external tools
\* write while the calls await them; the requests are !ytdl4 requests, which
\* share the directory TEMP_DIR_MP4
NextTools ==
  \/ \E p \in Procs : rq[p].pc /= "done" /\ Step(p, Titles) /\ rq'[p].kind = "mp4"
  \/ \E p \in Procs : AcquireProgress(p)
  \/ \E p \in Procs : ConvertProgress(p)

SpecTools == Init /\ [][NextTools]_vars

(* ------------------------------ delivery ------------------------------ *)
\* the size limit of a direct send, in MB
MAX_SEND_SIZE_MB == 1

\* stats.size / 1024 / 1024 divides by this number of bytes
BytesPerMB == 1048576

\* the commands that deliver a file
DeliverCommands == {"!ytdl4", "!ytdl3", "!dl4", "!dl3"}

\* sizes in bytes of the file to deliver, on both sides of the limit
DeliverSizes == {0, 1, 1048575, 1048576, 1048577, 2097152}

\* maxRetries, as the four handlers pass it to sendMediaWithRetry
maxRetries == 2

\* chat.sendMessage(media, options) resolved
Sent == <<"ok">>

\* error.message of a failed chat.sendMessage, as the sequence of the phrases
\* it is made of
SendErrors ==
  {<<"Session closed">>, <<"Target closed">>, <<"Protocol error">>,
   <<"Protocol error", "Target closed">>, <<"Evaluation failed">>}

\* what one chat.sendMessage(media, options) can do
SendOutcomes == {Sent} \cup SendErrors

\* error.message.includes(phrase)
MessageIncludes(m, phrase) == \E i \in DOMAIN m : m[i] = phrase

\* sendMediaWithRetry: the browser session is gone, a retry is pointless
SessionCrashed(m) ==
  \/ MessageIncludes(m, "Session closed")
  \/ MessageIncludes(m, "Target closed")
  \/ MessageIncludes(m, "Protocol error")

\* the handlers' catch block: the reply to an error
ErrorReply(m) ==
  IF MessageIncludes(m, "Target closed") \/ MessageIncludes(m, "Protocol error")
  THEN "Chrome crashed" ELSE "Error"

\* a gate that also uploads a file of exactly the limit
TooLarge_Inclusive(size) == size >= MAX_SEND_SIZE_MB * BytesPerMB

\* fileSizeMB > MAX_SEND_SIZE_MB, with fileSizeMB = stats.size / 1024 / 1024:
\* the division by a power of two is exact, so the test is on the bytes
TooLarge(size) == size > MAX_SEND_SIZE_MB * BytesPerMB

\* a handler holds the path of the file to deliver
InitDeliver ==
  /\ InitPipe
  /\ ffmpegAvailable = FALSE
  /\ deliv \in [pc : {"stat"}, cmd : DeliverCommands, size : DeliverSizes, uploads : {0},
                links : {0}, attempt : {0}, docs : {0}, reply : {""},
                log : {<<>>}, ret : {FALSE}, thrown : {<<>>}]
  /\ cachecmd \in NoCacheCmd
  /\ ensure = "done"
  /\ message = NoMessage
  /\ db = NoFetch

\* fs.statSync and the size gate: start the Gofile upload, or start
\* sendMediaWithRetry at attempt 1
SizeGate ==
  /\ deliv.pc = "stat"
  /\ deliv' = IF TooLarge(deliv.size)
              THEN [deliv EXCEPT !.pc = "uploading", !.uploads = deliv.uploads + 1]
              ELSE [deliv EXCEPT !.pc = "sending", !.attempt = 1]
  /\ UNCHANGED <<pipeVars, cachecmd, ensure, message, db>>

\* uploadToGofile settles: the link message, or the upload-failed message;
\* the handler returns
UploadDone(ok) ==
  /\ deliv.pc = "uploading"
  /\ deliv' = IF ok
              THEN [deliv EXCEPT !.pc = "end", !.links = deliv.links + 1, !.reply = "link"]
              ELSE [deliv EXCEPT !.pc = "end", !.reply = "Upload failed"]
  /\ UNCHANGED <<pipeVars, cachecmd, ensure, message, db>>

\* a loop that goes on to the next attempt after every failure
SendAttempt_RetryAll(o) ==
  /\ deliv.pc = "sending"
  /\ deliv.attempt <= maxRetries
  /\ LET d == [deliv EXCEPT !.log = Append(deliv.log, o)]
     IN deliv' = IF o = Sent
                 THEN [d EXCEPT !.pc = "end", !.docs = deliv.docs + 1, !.ret = TRUE,
                                !.reply = "sent"]
                 ELSE IF deliv.attempt = maxRetries
                 THEN [d EXCEPT !.pc = "end", !.thrown = o, !.reply = ErrorReply(o)]
                 ELSE [d EXCEPT !.attempt = deliv.attempt + 1]
  /\ UNCHANGED <<pipeVars, cachecmd, ensure, message, db>>

\* one turn of the loop of sendMediaWithRetry with outcome o of
\* chat.sendMessage(media, {sendMediaAsDocument: true})
SendAttempt(o) ==
  /\ deliv.pc = "sending"
  /\ deliv.attempt <= maxRetries
  /\ LET d == [deliv EXCEPT !.log = Append(deliv.log, o)]
     IN deliv' = IF o = Sent
                 THEN [d EXCEPT !.pc = "end", !.docs = deliv.docs + 1, !.ret = TRUE,
                                !.reply = "sent"]
                 ELSE IF SessionCrashed(o)
                 THEN [d EXCEPT !.pc = "end", !.thrown = o, !.reply = ErrorReply(o)]
                 ELSE IF deliv.attempt = maxRetries
                 THEN [d EXCEPT !.pc = "end", !.thrown = o, !.reply = ErrorReply(o)]
                 ELSE [d EXCEPT !.attempt = deliv.attempt + 1]
  /\ UNCHANGED <<pipeVars, cachecmd, ensure, message, db>>

NextDeliver ==
  \/ SizeGate
  \/ \E ok \in BOOLEAN : UploadDone(ok)
  \/ \E o \in SendOutcomes : SendAttempt(o)

SpecDeliver == InitDeliver /\ [][NextDeliver]_vars

(* --------------------------- cache commands --------------------------- *)
\* the names of directory d that end with .<k>, newest first: readdirSync,
\* the endsWith filter and the sort by descending mtimeMs
RECURSIVE CachedList(_, _)
CachedList(d, k) ==
  IF d = <<>> THEN <<>>
  ELSE LET rest == CachedList(SubSeq(d, 1, Len(d) - 1), k)
           last == d[Len(d)].name
       IN IF EndsWith(last, DotType(k)) THEN <<last>> \o rest ELSE rest

\* what parseInt gives for the argument of !dl4 / !dl3: a number, or NaN
\* (written -1) for a missing or non-numeric argument
DlNumbers == {-1, 0, 1, 2, 3}

\* !cache4 / !cache3: list the cached files of kind k as #1, #2, ...
cache(k) ==
  /\ cachecmd' = [cachecmd EXCEPT !.listed[k] = TRUE, !.files[k] = CachedList(dir[k], k)]
  /\ UNCHANGED <<pipeVars, deliv, ensure, message, db>>

\* !dl4 / !dl3 with argument n: index = n - 1 into the list read again from
\* the directory; shown is what the last listing of the kind had as #n
dl(k, n) ==
  /\ LET index == n - 1
         files == CachedList(dir[k], k)
         shown == IF cachecmd.listed[k] /\ n \in 1..Len(cachecmd.files[k])
                  THEN cachecmd.files[k][n] ELSE NoName
         answer(rep, name) == [reply |-> rep, kind |-> k, n |-> n, name |-> name, shown |-> shown]
     IN cachecmd' =
          [cachecmd EXCEPT !.sent =
             IF n = -1 THEN answer("Please provide a valid number", NoName)
             ELSE IF index < 0 \/ index >= Len(files) THEN answer("Invalid number", NoName)
             ELSE answer("file", files[index + 1])]
  /\ UNCHANGED <<pipeVars, deliv, ensure, message, db>>

\* the sequential bot with !cache4 and !dl4 between the requests (!cache3
\* and !dl3 are the same code on the other directory)
NextCache ==
  \/ Next
  \/ rq[1].pc \in {"idle", "done"} /\ cache("mp4")
  \/ \E n \in DlNumbers : rq[1].pc \in {"idle", "done"} /\ dl("mp4", n)

SpecCache == Init /\ [][NextCache]_vars

(* ------------------------------- startup ------------------------------ *)
\* the program as the module is loaded: ffmpegAvailable is false and the
\* call ensureFFmpeg() of the last startup lines has not run yet
InitBoot ==
  /\ InitPipe
  /\ ffmpegAvailable = FALSE
  /\ deliv = NoDelivery
  /\ cachecmd \in NoCacheCmd
  /\ ensure = "start"
  /\ message = NoMessage
  /\ db = NoFetch

\* ensureFFmpeg up to its await: with ffmpeg installed it sets the flag and
\* returns; otherwise it starts ytdlp.downloadFFmpeg() and is suspended
ensureFFmpeg(isInstalled) ==
  /\ ensure = "start"
  /\ IF isInstalled
     THEN ffmpegAvailable' = TRUE /\ ensure' = "done"
     ELSE ffmpegAvailable' = ffmpegAvailable /\ ensure' = "downloading"
  /\ UNCHANGED <<dir, rq, prev, ncalls, deliv, cachecmd, message, db>>

\* ytdlp.downloadFFmpeg() settles: the flag is set to the outcome
DownloadFFmpegDone(ok) ==
  /\ ensure = "downloading"
  /\ ffmpegAvailable' = ok
  /\ ensure' = "done"
  /\ UNCHANGED <<dir, rq, prev, ncalls, deliv, cachecmd, message, db>>

\* The module load runs ensureFFmpeg() to its first await and goes on
\* without waiting for the promise (ensureFFmpeg().catch(console.error));
\* the handlers run once the module is loaded.
NextBoot ==
  \/ \E isInstalled \in BOOLEAN : ensureFFmpeg(isInstalled)
  \/ \E ok \in BOOLEAN : DownloadFFmpegDone(ok)
  \/ ensure /= "start" /\ Next

SpecBoot == InitBoot /\ [][NextBoot]_vars

(* --------------------------- command parsing --------------------------- *)
\* String.prototype.split(" "): the pieces between the spaces, empty ones
\* included
RECURSIVE Split(_)
Split(s) ==
  IF \A i \in DOMAIN s : s[i] /= " " THEN <<s>>
  ELSE LET i == CHOOSE j \in DOMAIN s : s[j] = " " /\ \A h \in 1..(j - 1) : s[h] /= " "
       IN <<SubSeq(s, 1, i - 1)>> \o Split(SubSeq(s, i + 1, Len(s)))

IsWord(w) == w /= <<>>

\* tokenizer: the first piece is the command, the other non-empty pieces are
\* the arguments
tokenizer(input) ==
  LET search_term == Split(input)
  IN [command |-> Head(search_term), only_search |-> SelectSeq(Tail(search_term), IsWord)]

WhiteSpace == {" ", "\n", "\t"}

\* String.prototype.trim
RECURSIVE trim(_)
trim(w) ==
  IF w = <<>> THEN w
  ELSE IF Head(w) \in WhiteSpace THEN trim(Tail(w))
  ELSE IF w[Len(w)] \in WhiteSpace THEN trim(SubSeq(w, 1, Len(w) - 1))
  ELSE w

Ytdl4 == <<"!", "y", "t", "d", "l", "4">>
Ytdl3 == <<"!", "y", "t", "d", "l", "3">>
YoutubeCom == <<"y", "o", "u", "t", "u", "b", "e", ".", "c", "o", "m">>
YoutuBe == <<"y", "o", "u", "t", "u", ".", "b", "e">>

\* the words a message body is made of here: nothing, a line break, URLs of
\* the two accepted hosts, another host, and a near miss
BodyWords ==
  {<<>>, <<"\n">>, YoutubeCom \o <<"/", "x">>, <<"m", ".">> \o YoutuBe \o <<"\n">>,
   <<"x", ".", "c", "o", "m">>, <<"y", "o", "u", "t", "u", "b", "e">>}

\* message bodies: a download command, spaces, a word, spaces, a word
Bodies ==
  {c \o s1 \o a \o s2 \o b :
     c \in {Ytdl4, Ytdl3}, s1 \in {<<>>, <<" ">>, <<" ", " ">>}, a \in BodyWords,
     s2 \in {<<>>, <<" ">>}, b \in {<<>>, YoutubeCom}}

\* a message arrives
InitMessage ==
  /\ InitPipe
  /\ ffmpegAvailable = FALSE
  /\ deliv = NoDelivery
  /\ cachecmd \in NoCacheCmd
  /\ ensure = "done"
  /\ message \in [pc : {"received"}, body : Bodies, reply : {""}, lookups : {0}, downloads : {0},
                  title : {<<>>}, videoTitle : {<<>>}]
  /\ db = NoFetch

\* the url test of the handlers
ValidUrl(url) == ~(url = <<>> \/ (~Includes(url, YoutubeCom) /\ ~Includes(url, YoutuBe)))

\* The !ytdl4 / !ytdl3 handler up to its metadata lookup.  only_search[0] is
\* undefined when the message has no argument, and undefined.trim() throws a
\* TypeError, which the handler's catch block answers.
ytdl ==
  /\ message.pc = "received"
  /\ LET t == tokenizer(message.body)
     IN message' =
          IF t.command \notin {Ytdl4, Ytdl3}
          THEN [message EXCEPT !.pc = "end"]
          ELSE IF t.only_search = <<>>
          THEN [message EXCEPT !.pc = "end", !.reply = "Error"]
          ELSE IF ~ValidUrl(trim(t.only_search[1]))
          THEN [message EXCEPT !.pc = "end", !.reply = "Usage"]
          ELSE [message EXCEPT !.pc = "lookup", !.reply = "Fetching video information",
                               !.lookups = message.lookups + 1]
  /\ UNCHANGED <<pipeVars, deliv, cachecmd, ensure, db>>

\* length of the longest raw title of a video
MaxTitleLen == 2

\* the characters of raw titles: a letter, a digit, the underscore, a space,
\* a hyphen, and "!" for any character outside [A-Za-z0-9_], white space
\* and "-" (punctuation, and every letter that is not ASCII)
TitleChars == {"a", "7", "_", " ", "-", "!"}

\* the class \w of the regular expressions, as far as the titles and the
\* default name use it
WordChars == {"a", "7", "_", "v", "i", "d", "e", "o"}

\* videoInfo.title
RawTitles == UNION {[1..n -> TitleChars] : n \in 0..MaxTitleLen}

\* the limit of substring(0, 100)
TitleLimit == 100

DefaultTitle == <<"v", "i", "d", "e", "o">>

IsKept(c) == c \in WordChars \/ c \in WhiteSpace \/ c = "-"

\* .replace(/\s+/g, "_"): every run of white space becomes one underscore
RECURSIVE SpacesToUnderscore(_)
SpacesToUnderscore(s) ==
  IF s = <<>> THEN s
  ELSE IF Head(s) \notin WhiteSpace THEN <<Head(s)>> \o SpacesToUnderscore(Tail(s))
  ELSE IF Len(s) > 1 /\ s[2] \in WhiteSpace THEN SpacesToUnderscore(Tail(s))
  ELSE <<"_">> \o SpacesToUnderscore(Tail(s))

\* sanitizeFilename: .replace(/[^\w\s-]/g, "").replace(/\s+/g, "_").substring(0, 100)
sanitizeFilename(filename) ==
  LET t == SpacesToUnderscore(SelectSeq(filename, IsKept))
  IN SubSeq(t, 1, IF Len(t) < TitleLimit THEN Len(t) ELSE TitleLimit)

\* getYouTubeVideoInfo settles, with the raw title of the video: the handler
\* computes videoTitle and goes on to download_video, or answers the error
InfoDone(ok, title) ==
  /\ message.pc = "lookup"
  /\ message' = IF ok
                THEN [message EXCEPT !.pc = "download", !.downloads = message.downloads + 1,
                                     !.title = title,
                                     !.videoTitle = sanitizeFilename(IF title = <<>> THEN DefaultTitle
                                                                     ELSE title)]
                ELSE [message EXCEPT !.pc = "end", !.reply = "Error"]
  /\ UNCHANGED <<pipeVars, deliv, cachecmd, ensure, db>>

NextMessage ==
  \/ ytdl
  \/ \E ok \in BOOLEAN, title \in RawTitles : InfoDone(ok, title)

SpecMessage == InitMessage /\ [][NextMessage]_vars

(* ------------------------------ fetchDBApi ---------------------------- *)
\* the default of the parameter maxRetries of fetchDBApi
fetchMaxRetries == 3

\* status codes of the responses: 200 is ok, 404 stands for every status
\* that is neither ok nor one of the four the code names
FetchStatuses == {200, 404, 500, 502, 503, 504}

\* the statuses fetchDBApi waits and continues on
RetryStatuses == {503, 502, 504, 500}

\* how one fetch can settle: a response with a status (the body of an ok
\* response parses, or response.json() rejects with a SyntaxError), the
\* abort of the 15 s timer, or a network failure (fetch rejects with a
\* TypeError)
FetchOutcomes ==
  {[status |-> st, error |-> ""] : st \in FetchStatuses}
    \cup {[status |-> 200, error |-> "SyntaxError"]}
    \cup {[status |-> 0, error |-> e] : e \in {"AbortError", "TypeError"}}

\* new Error(`DB API error: ${response.status}`)
DBApiError(st) == [message |-> "DB API error", status |-> st]

\* the Error a rejected fetch or response.json() arrives with
Rejection(o) == [message |-> o.error, status |-> 0]

\* throw lastError || new Error('DB API unavailable')
Unavailable(lastError) ==
  IF lastError /= NoError THEN lastError ELSE [message |-> "DB API unavailable", status |-> 0]

InitDB ==
  /\ InitPipe
  /\ ffmpegAvailable = FALSE
  /\ deliv = NoDelivery
  /\ cachecmd \in NoCacheCmd
  /\ ensure = "done"
  /\ message = NoMessage
  /\ db = NoFetch

\* fetchDBApi(urlPath) is called and issues its first request
fetchDBApi ==
  /\ db.pc = "none"
  /\ db' = [db EXCEPT !.pc = "fetching", !.attempt = 1]
  /\ UNCHANGED <<pipeVars, deliv, cachecmd, ensure, message>>

\* the end of one pass of the loop, with lastError e: the next request, or
\* the throw after the loop
NextAttempt(d, e) ==
  IF d.attempt + 1 <= fetchMaxRetries
  THEN [d EXCEPT !.attempt = d.attempt + 1, !.lastError = e]
  ELSE [d EXCEPT !.pc = "thrown", !.lastError = e, !.thrown = Unavailable(e)]

\* the request of the current attempt settles with outcome o, and fetchDBApi
\* runs on (through its waits) to the next request, its return or its throw
FetchSettles(o) ==
  /\ db.pc = "fetching"
  /\ LET d == [db EXCEPT !.log = Append(db.log, o)]
     IN db' =
          IF o.error = "" /\ o.status = 200
          THEN [d EXCEPT !.pc = "returned"]
          ELSE IF o.error = "" /\ o.status \in RetryStatuses
          THEN NextAttempt(d, d.lastError)
          ELSE IF o.error = ""
          THEN NextAttempt(d, DBApiError(o.status))
          ELSE NextAttempt(d, Rejection(o))
  /\ UNCHANGED <<pipeVars, deliv, cachecmd, ensure, message>>

NextDB ==
  \/ fetchDBApi
  \/ \E o \in FetchOutcomes : FetchSettles(o)

SpecDB == InitDB /\ [][NextDB]_vars

(* ------------------------- what the claims name ----------------------- *)
\* download_video has returned or thrown, and the handler has not yet run on
Returned(r) == r.pc = "returned"

\* the result is a path
IsPath(r) == r.res.kind = "path"

\* file n is in directory d with size > 0
NonEmptyIn(d, n) == \E i \in DOMAIN d : d[i].name = n /\ d[i].size > 0

\* file n is in directory d with size 0
EmptyIn(d, n) == \E i \in DOMAIN d : d[i].name = n /\ d[i].size = 0

\* the call changed nothing in its directory
Untouched(r) == dir[r.kind] = r.dir0 /\ r.unlinked = {} /\ ~r.renamed

\* a partial marker of title t, as the specification names it: the name
\* starts with the title and carries a .part suffix or a .f<id> fragment suffix
IsMarker(f, t) == StartsWith(f, t) /\ (Includes(f, DotPart) \/ Includes(f, DotF))

\* A valid original for title t and kind k: a non-empty file whose name
\* starts with the title, that is no partial marker and does not have the
\* target extension of the kind.
ValidOriginals(d, t, k) ==
  {d[i].name : i \in {j \in DOMAIN d : /\ d[j].size > 0
                                        /\ StartsWith(d[j].name, t)
                                        /\ ~IsMarker(d[j].name, t)
                                        /\ ~EndsWith(d[j].name, DotType(k))}}

\* the complete non-empty media files of exactly title t in directory d
Artifacts(d, t) ==
  {d[i].name : i \in {j \in DOMAIN d : /\ d[j].size > 0 /\ d[j].whole
                                        /\ \E e \in AcqExts : d[j].name = t \o e}}

(* --------------------------------- C1 --------------------------------- *)
\* C1: when a call returned a path and the next call has the same
\* arguments (rep is the path the first one returned), the second call
\* does not invoke the Acquirer and returns the same path.
C1_Idempotent ==
  \A p \in Procs :
    rq[p].rep /= NoName
      => /\ rq[p].acq = 0
         /\ Returned(rq[p]) => (IsPath(rq[p]) /\ rq[p].res.name = rq[p].rep)

(* --------------------------------- C2 --------------------------------- *)
\* C2: a call that starts with a non-empty file at the canonical path P
\* returns P, invokes neither the Acquirer nor the Transcoder, and creates,
\* deletes and renames nothing in the cache directory.
C2_CacheHitFrame ==
  \A p \in Procs :
    Returned(rq[p]) /\ NonEmptyIn(rq[p].dir0, filePath(rq[p]))
      => /\ IsPath(rq[p]) /\ rq[p].res.name = filePath(rq[p])
         /\ rq[p].acq = 0 /\ rq[p].conv = 0
         /\ Untouched(rq[p])

C2_Witness ==
  \E p \in Procs :
    /\ Returned(rq[p]) /\ NonEmptyIn(rq[p].dir0, filePath(rq[p]))
    /\ Len(rq[p].dir0) > 1

(* --------------------------------- C3 --------------------------------- *)
\* C3 as claimed: a call that starts with a zero-byte file at P deletes it,
\* invokes the Acquirer, and does not return a zero-byte file.
C3_AlwaysAcquires ==
  \A p \in Procs :
    Returned(rq[p]) /\ EmptyIn(rq[p].dir0, filePath(rq[p]))
      => /\ filePath(rq[p]) \in rq[p].unlinked
         /\ rq[p].acq >= 1
         /\ IsPath(rq[p]) => NonEmptyIn(dir[rq[p].kind], rq[p].res.name)

\* C3 (amended): a call that starts with a zero-byte file at P deletes it
\* and goes on: when the scan finds a non-empty cached original it serves
\* that file (converted to P, or as it is) without the Acquirer, otherwise
\* it invokes the Acquirer; a path it returns is never a zero-byte file.
C3_CorruptCacheRecovery ==
  \A p \in Procs :
    Returned(rq[p]) /\ EmptyIn(rq[p].dir0, filePath(rq[p]))
      => /\ filePath(rq[p]) \in rq[p].unlinked
         /\ \/ rq[p].acq = 1
            \/ /\ rq[p].acq = 0
               /\ NonEmptyIn(rq[p].dir0, rq[p].originalPath)
               /\ IsPath(rq[p]) /\ rq[p].res.name \in {rq[p].originalPath, filePath(rq[p])}
         /\ IsPath(rq[p]) => NonEmptyIn(dir[rq[p].kind], rq[p].res.name)

C3_Witness ==
  \E p \in Procs :
    /\ Returned(rq[p]) /\ EmptyIn(rq[p].dir0, filePath(rq[p]))
    /\ rq[p].acq = 1 /\ IsPath(rq[p])

(* --------------------------------- C4 --------------------------------- *)
\* C4: the partial markers of the title that the cache directory held when
\* the request started are gone once the request has completed (stated for
\* the requests whose own fetch left nothing behind, so that a marker that
\* remains is one of those the request started with).
C4_PartialsGone ==
  \A p \in Procs :
    rq[p].pc = "done" /\ rq[p].acqRes.left = "none"
      => \A f \in Names(rq[p].dir0) :
           IsMarker(f, rq[p].title) => ~Exists(dir[rq[p].kind], f)

(* --------------------------------- C5 --------------------------------- *)
\* C5: when the call starts with no file at P and a valid original in the
\* directory, the Transcoder is available and its convert call fails, the
\* call returns that original's path and does not invoke the Acquirer.
C5_DegradeToOriginal ==
  \A p \in Procs :
    (/\ Returned(rq[p])
     /\ ~Exists(rq[p].dir0, filePath(rq[p]))
     /\ ValidOriginals(rq[p].dir0, rq[p].title, rq[p].kind) /= {}
     /\ ffmpegAvailable /\ rq[p].convRes = "fail")
      => /\ rq[p].acq = 0
         /\ IsPath(rq[p])
         /\ rq[p].res.name \in ValidOriginals(rq[p].dir0, rq[p].title, rq[p].kind)

(* --------------------------------- C6 --------------------------------- *)
\* C6: when the file the Acquirer produced has the target extension of the
\* requested kind, the call makes no Transcoder call, and it returns P with
\* the file at P.
C6_ExtensionShortCircuit ==
  \A p \in Procs :
    (/\ rq[p].acq = 1 /\ rq[p].acqRes.ok /\ rq[p].acqRes.made
     /\ rq[p].acqRes.size > 0 /\ rq[p].acqRes.ext = DotType(rq[p].kind))
      => /\ rq[p].conv = 0
         /\ Returned(rq[p])
              => /\ IsPath(rq[p]) /\ rq[p].res.name = filePath(rq[p])
                 /\ NonEmptyIn(dir[rq[p].kind], filePath(rq[p]))

(* --------------------------------- C7 --------------------------------- *)
\* C7: in every reachable state, each cache directory holds at most one
\* complete non-empty media file per title.
C7_SingleArtifact ==
  \A k \in Kinds, t \in Titles : Cardinality(Artifacts(dir[k], t)) <= 1

(* --------------------------------- C8 --------------------------------- *)
\* C8: when the Acquirer reports success and produced no file, the call
\* fails with the not-found error; when the file it produced is empty, the
\* call fails with the empty-file error; in both cases no path is returned,
\* the Transcoder is not invoked and no file is renamed.
C8_PostFetchVerification ==
  \A p \in Procs :
    /\ (rq[p].acq = 1 /\ rq[p].acqRes.ok /\ ~rq[p].acqRes.made)
         => /\ rq[p].conv = 0 /\ ~rq[p].renamed
            /\ Returned(rq[p])
                 => rq[p].res.kind = "error" /\ rq[p].res.err = "File not created"
    /\ (rq[p].acq = 1 /\ rq[p].acqRes.ok /\ rq[p].acqRes.made /\ rq[p].acqRes.size = 0)
         => /\ rq[p].conv = 0 /\ ~rq[p].renamed
            /\ Returned(rq[p])
                 => rq[p].res.kind = "error" /\ rq[p].res.err = "Downloaded file is empty"

(* --------------------------------- C9 --------------------------------- *)
\* C9: a call invokes the Acquirer at most once; when that invocation
\* fails the call throws the download-failed error, returns no path and
\* invokes no Transcoder.
C9_AcquireFailureFatal ==
  \A p \in Procs :
    /\ rq[p].acq <= 1
    /\ (Returned(rq[p]) /\ rq[p].acq = 1 /\ ~rq[p].acqRes.ok)
         => /\ rq[p].res.kind = "error" /\ rq[p].res.err = "Download failed"
            /\ rq[p].conv = 0

C9_Witness ==
  \E p \in Procs : Returned(rq[p]) /\ rq[p].acq = 1 /\ ~rq[p].acqRes.ok

(* --------------------------------- C10 -------------------------------- *)
\* C10: when the Acquirer succeeded and the located file is not empty, the
\* call returns a path to an existing non-empty file, also when the
\* Transcoder is unavailable or its convert call fails.
C10_DeliverSomething ==
  \A p \in Procs :
    (Returned(rq[p]) /\ rq[p].acq = 1 /\ rq[p].acqRes.ok
       /\ rq[p].downloadedPath /= NoName /\ rq[p].downloadedSize > 0)
      => IsPath(rq[p]) /\ NonEmptyIn(dir[rq[p].kind], rq[p].res.name)

C10_Witness ==
  \E p \in Procs :
    /\ Returned(rq[p]) /\ rq[p].acq = 1 /\ rq[p].acqRes.ok /\ rq[p].downloadedSize > 0
    /\ rq[p].convRes = "fail" /\ rq[p].downloadedPath /= filePath(rq[p])
    /\ IsPath(rq[p]) /\ rq[p].res.name = rq[p].downloadedPath

(* --------------------------------- C11 -------------------------------- *)
\* what a crashed attempt can leave of title t in directory d: a zero-byte
\* file, a partial marker, or a file its writer did not finish
Leftovers(d, t) ==
  {d[i].name : i \in {j \in DOMAIN d : /\ StartsWith(d[j].name, t)
                                        /\ \/ d[j].size = 0
                                           \/ IsMarker(d[j].name, t)
                                           \/ ~d[j].whole}}

\* the tools worked in the call: the Acquirer, when invoked, produced a
\* non-empty file and left nothing else; no convert call failed
ToolsWorked(r) ==
  /\ r.acq = 1 => (r.acqRes.ok /\ r.acqRes.made /\ r.acqRes.size > 0 /\ r.acqRes.left = "none")
  /\ r.convRes /= "fail"

\* file n is in directory d, non-empty and complete
CompleteIn(d, n) == \E i \in DOMAIN d : d[i].name = n /\ d[i].size > 0 /\ d[i].whole

\* C11: a call that starts with leftovers of a crashed attempt for its title
\* in the directory, and whose tools work, returns a path to a complete,
\* non-empty file.
C11_SelfHealing ==
  \A p \in Procs :
    (/\ Returned(rq[p])
     /\ Leftovers(rq[p].dir0, rq[p].title) /= {}
     /\ ToolsWorked(rq[p]))
      => IsPath(rq[p]) /\ CompleteIn(dir[rq[p].kind], rq[p].res.name)

(* --------------------------------- C12 -------------------------------- *)
\* C12: when the call starts with no file at P and a valid original in the
\* directory (for the mp3 kind a cached <title>.mp4 is one) and the
\* Transcoder is available, the call does not invoke the Acquirer, and when
\* its convert call succeeds it returns P with the converted file at P.
C12_ConvertCachedOriginal ==
  \A p \in Procs :
    (/\ rq[p].pc \notin {"idle", "entry"}
     /\ ~Exists(rq[p].dir0, filePath(rq[p]))
     /\ ValidOriginals(rq[p].dir0, rq[p].title, rq[p].kind) /= {}
     /\ ffmpegAvailable)
      => /\ rq[p].acq = 0
         /\ (Returned(rq[p]) /\ rq[p].convRes = "ok")
              => /\ IsPath(rq[p]) /\ rq[p].res.name = filePath(rq[p])
                 /\ NonEmptyIn(dir[rq[p].kind], filePath(rq[p]))

(* --------------------------------- C13 -------------------------------- *)
\* C13: at every invocation of the Acquirer the requested format is
\* 'bv[height<=?720]+ba/b[height<=?720]' exactly when the Transcoder is
\* available and 'b[height<=?720]' exactly when it is not.
C13_QualityProfile ==
  [][\A p \in Procs :
       rq'[p].acq > rq[p].acq
         => /\ rq'[p].format = "bv[height<=?720]+ba/b[height<=?720]" <=> ffmpegAvailable
            /\ rq'[p].format = "b[height<=?720]" <=> ~ffmpegAvailable]_vars

C13_Witness ==
  \E p \in Procs :
    rq[p].pc = "acquiring" /\ ~ffmpegAvailable /\ rq[p].format = "b[height<=?720]"

(* --------------------------------- C14 -------------------------------- *)
\* the call of handler p misses the cache in the current state: no
\* non-empty file at P and no non-empty cached original
Misses(p) ==
  LET r == rq[p]
      d == dir[r.kind]
  IN /\ ~CacheHit(d, filePath(r))
     /\ \A f \in Names(d) : IsOriginal(f, baseFilename(r)) => SizeOf(d, f) = 0

\* handler q is inside a fetch for the same title and kind as handler p
SameFetchInFlight(p, q) ==
  /\ q /= p
  /\ rq[q].pc = "acquiring"
  /\ rq[q].title = rq[p].title /\ rq[q].kind = rq[p].kind

\* C14: nothing makes a call wait for, or join, a fetch in flight: a call
\* that enters download_video and misses the cache while another call for the
\* same title and kind is awaiting the Acquirer invokes the Acquirer too, so
\* that both calls are fetching at once.
C14_NoSingleFlight ==
  [][\A p \in Procs, q \in Procs :
       (rq[p].pc = "entry" /\ rq'[p] /= rq[p] /\ Misses(p) /\ SameFetchInFlight(p, q))
         => /\ rq'[p].pc = "acquiring" /\ rq'[p].acq = 1
            /\ rq'[q].pc = "acquiring" /\ rq'[q].acq = 1]_vars

C14_Witness ==
  \E p \in Procs, q \in Procs :
    /\ p /= q
    /\ rq[p].title = rq[q].title /\ rq[p].kind = rq[q].kind
    /\ ~Exists(rq[p].dir0, filePath(rq[p])) /\ ~Exists(rq[q].dir0, filePath(rq[q]))
    /\ rq[p].conv = 1 /\ rq[q].conv = 1
    /\ rq[p].acq = 1 /\ rq[q].acq = 1
    /\ rq[p].pc = "convDl" /\ rq[q].pc = "convDl"

(* --------------------------------- C15 -------------------------------- *)
\* C15: for each of the four delivering commands, the file is uploaded to
\* Gofile (and only then a link can be sent) exactly when its size exceeds
\* MAX_SEND_SIZE_MB megabytes, it is sent directly as a document exactly
\* when it does not, and never both.
C15_SizeGate ==
  deliv.pc \notin {"none", "stat"}
    => /\ deliv.uploads = 1 <=> deliv.size > MAX_SEND_SIZE_MB * BytesPerMB
       /\ deliv.attempt >= 1 <=> deliv.size <= MAX_SEND_SIZE_MB * BytesPerMB
       /\ deliv.links >= 1 => deliv.size > MAX_SEND_SIZE_MB * BytesPerMB
       /\ deliv.docs >= 1 => deliv.size <= MAX_SEND_SIZE_MB * BytesPerMB
       /\ ~(deliv.uploads >= 1 /\ deliv.attempt >= 1)
       /\ deliv.links + deliv.docs <= 1

\* a file of exactly the limit has been sent directly
C15_Witness ==
  deliv.pc = "end" /\ deliv.size = MAX_SEND_SIZE_MB * BytesPerMB /\ deliv.docs = 1

(* --------------------------------- C16 -------------------------------- *)
\* C16: when the last listing of the kind showed a file as #n, '!dl4 <n>'
\* ('!dl3 <n>') delivers that file, whatever commands ran in between.
C16_SendsListed ==
  cachecmd.sent.shown /= NoName
    => cachecmd.sent.reply = "file" /\ cachecmd.sent.name = cachecmd.sent.shown

(* --------------------------------- C17 -------------------------------- *)
\* file e of the directory of kind k is a finished artifact: <title>.<k>,
\* non-empty and complete
IsArtifact(e, k) ==
  /\ e.size > 0 /\ e.whole
  /\ \E t \in Titles : e.name = t \o DotType(k)

\* C17: a finished artifact <title>.<ext> stays in its directory as it is:
\* no step of a later download_video call rewrites it, renames over it,
\* renames it away or deletes it.
C17_ArtifactImmutable ==
  [][\A k \in Kinds : \A i \in DOMAIN dir[k] :
       IsArtifact(dir[k][i], k) => \E j \in DOMAIN dir'[k] : dir'[k][j] = dir[k][i]]_vars

(* --------------------------------- C18 -------------------------------- *)
\* the call is suspended at one of the awaits of download_video: on the
\* Acquirer or on the Transcoder
AtAwait(r) == r.pc \in {"acquiring", "convCached", "convDl"}

\* the handler is not inside download_video
OutsideCall(r) == r.pc \in {"idle", "entry", "returned", "done"}

HasReadFlag(r) == r.originalPath /= NoName \/ r.acq >= 1

\* C19: no call reads ffmpegAvailable before ensureFFmpeg has completed, and
\* within one call the value read for the quality profile equals the value
\* read to decide on the conversion after the fetch.
C19_AvailabilitySettled ==
  /\ ensure /= "done" => \A p \in Procs : ~HasReadFlag(rq[p])
  /\ \A p \in Procs :
       rq[p].ffAtConvert /= "unread" => (rq[p].hasFFmpeg <=> rq[p].ffAtConvert = "yes")

(* --------------------------------- C20 -------------------------------- *)
\* the words of a message body after its first word
Arguments(body) == SelectSeq(Tail(Split(body)), IsWord)

\* the body is a !ytdl4 / !ytdl3 command whose URL argument is missing or
\* contains neither 'youtube.com' nor 'youtu.be'
InvalidRequest(body) ==
  /\ Head(Split(body)) \in {Ytdl4, Ytdl3}
  /\ \/ Arguments(body) = <<>>
     \/ (~Includes(Arguments(body)[1], YoutubeCom) /\ ~Includes(Arguments(body)[1], YoutuBe))

\* C20: a !ytdl4 / !ytdl3 message whose URL argument is missing, or contains
\* neither 'youtube.com' nor 'youtu.be', is answered with the usage message,
\* with no metadata lookup and no download_video call.
C20_InvalidUrl ==
  (message.pc \notin {"none", "received"} /\ InvalidRequest(message.body))
    => /\ message.pc = "end" /\ message.reply = "Usage"
       /\ message.lookups = 0 /\ message.downloads = 0

(* --------------------------------- C21 -------------------------------- *)
\* a failed send that does not end the loop by itself
PlainFailure(o) == o /= Sent /\ ~SessionCrashed(o)

\* C21: sendMediaWithRetry calls chat.sendMessage at most maxRetries times;
\* every call but the last one was a failure that names no lost session;
\* after a successful call it returns true; after a failure that names a
\* lost session it throws that error at once; after maxRetries failures it
\* throws the error of the last one.
C21_SendMediaWithRetry ==
  LET log == deliv.log
      n == Len(log)
  IN /\ n <= maxRetries
     /\ \A i \in 1..(n - 1) : PlainFailure(log[i])
     /\ deliv.pc = "sending" => /\ n < maxRetries /\ deliv.attempt = n + 1
                                /\ \A i \in 1..n : PlainFailure(log[i])
     /\ (deliv.pc = "end" /\ n > 0)
          => /\ log[n] = Sent => (deliv.ret /\ deliv.thrown = <<>>)
             /\ log[n] /= Sent => (~deliv.ret /\ deliv.thrown = log[n])
             /\ PlainFailure(log[n]) => n = maxRetries

\* the first attempt failed, the second one lost the session
C21_Witness ==
  /\ deliv.pc = "end" /\ Len(deliv.log) = maxRetries
  /\ SessionCrashed(deliv.log[maxRetries]) /\ deliv.thrown = deliv.log[maxRetries]

(* --------------------------------- C22 -------------------------------- *)
\* another handler's Transcoder is writing file n of the directory of kind k
BeingWritten(p, k, n) ==
  \E q \in Procs \ {p} :
    rq[q].kind = k /\ rq[q].pc \in {"convCached", "convDl"} /\ n \in rq[q].writing

\* the step is handler p returning P from the canonical-path check
ReturnsCacheHit(p) ==
  /\ rq[p].pc = "entry" /\ rq'[p].pc = "returned"
  /\ rq'[p].res.kind = "path" /\ rq'[p].res.name = filePath(rq[p])

\* C22: a call that returns P from the canonical-path check returns a
\* finished file: no other call is inside convert writing P at that moment.
C22_HitIsComplete ==
  [][\A p \in Procs :
       ReturnsCacheHit(p) => ~BeingWritten(p, rq[p].kind, filePath(rq[p]))]_vars

(* --------------------------------- C23 -------------------------------- *)
\* C23: when a convert call of download_video has failed and the call has
\* returned the path of the untranscoded file, no non-empty file exists at
\* the canonical path P.
C23_FailedConvertLeavesNothing ==
  \A p \in Procs :
    (Returned(rq[p]) /\ rq[p].convRes = "fail" /\ IsPath(rq[p]))
      => ~NonEmptyIn(dir[rq[p].kind], filePath(rq[p]))

(* --------------------------------- C24 -------------------------------- *)
\* C24: download_video renames a file to the canonical path P only when the
\* file's extension is the target extension of the requested kind.
C24_NoRelabelling ==
  \A p \in Procs :
    rq[p].renamed => extname(rq[p].downloadedPath) = DotType(rq[p].kind)

(* --------------------------------- C25 -------------------------------- *)
\* the step is a cleanup of handler p: the synchronous start of its
\* download_video call (with the pre-download cleanup), or its finally block
CleanupStep(p) ==
  \/ rq[p].pc = "entry" /\ rq'[p].pc /= "entry"
  \/ rq[p].pc = "returned" /\ rq'[p].pc = "done"

\* C25: the cleanups of a request do not delete a partial file that the
\* still-running fetch of another request is writing.
C25_CleanupScoped ==
  [][\A p \in Procs, q \in Procs :
       (p /= q /\ CleanupStep(p) /\ rq[q].pc = "acquiring")
         => \A f \in rq[q].writing :
              Exists(dir[rq[q].kind], f) => Exists(dir'[rq[q].kind], f)]_vars

(* --------------------------------- C26 -------------------------------- *)
\* file f belongs to title t: its name is t followed by an extension or a
\* partial marker
OwnFile(f, t) == StartsWith(f, t \o <<".">>)

\* the files the call of r has deleted, picked as cached original, picked as
\* download (to convert or rename) or returned
Handled(r) == r.unlinked \cup ({r.originalPath, r.downloadedPath, r.res.name} \ {NoName})

\* C26: a download_video call for title T deletes, converts, renames and
\* returns only files that belong to T, never a file of a title that T is a
\* proper prefix of.
C26_TitleIsolation ==
  \A p \in Procs : \A f \in Handled(rq[p]) : OwnFile(f, rq[p].title)

(* --------------------------------- C27 -------------------------------- *)
\* C27: the title the !ytdl4 / !ytdl3 handler passes to download_video is
\* not the empty string, whatever raw title the metadata lookup returned.
C27_NonEmptyKey ==
  message.pc = "download" => message.videoTitle /= <<>>

(* --------------------------------- C28 -------------------------------- *)
\* C28: whenever download_video is inside convertToMp4 / convertToMp3, the
\* input path of the conversion differs from its output path P.
C28_InputNotOutput ==
  \A p \in Procs :
    /\ rq[p].pc = "convCached" => rq[p].originalPath /= filePath(rq[p])
    /\ rq[p].pc = "convDl" => rq[p].downloadedPath /= filePath(rq[p])

(* --------------------------------- C29 -------------------------------- *)
\* C29: a request announced as "Found in cache" is served by a
\* download_video call that makes no acquisition, and a request announced
\* as "Downloading" is served by a call that invokes the Acquirer.
C29_AnnouncementMatches ==
  \A p \in Procs :
    Returned(rq[p]) =>
      /\ rq[p].announce = "Found in cache" <=> rq[p].acq = 0
      /\ rq[p].announce = "Downloading" <=> rq[p].acq > 0

(* --------------------------------- C30 -------------------------------- *)
\* the response is neither ok nor one of 500, 502, 503, 504
PermanentFailure(o) == o.error = "" /\ o.status \notin {200} \cup RetryStatuses

\* a timeout, a network error, or a 500 / 502 / 503 / 504 response
TransientFailure(o) ==
  \/ o.error \in {"AbortError", "TypeError"}
  \/ o.error = "" /\ o.status \in RetryStatuses

\* C30: after a response whose status is neither ok nor 500, 502, 503, 504
\* fetchDBApi issues no further request and throws "DB API error: <status>";
\* a request is repeated only after a transient failure; and no more than
\* maxRetries requests are issued.
C30_RetriesOnlyTransient ==
  /\ \A i \in DOMAIN db.log :
       PermanentFailure(db.log[i]) =>
         /\ i = Len(db.log)
         /\ db.pc = "thrown"
         /\ db.thrown = DBApiError(db.log[i].status)
  /\ \A i \in DOMAIN db.log : i < db.attempt => TransientFailure(db.log[i])
  /\ db.attempt <= fetchMaxRetries

====
